---- MODULE Spec2Model ----
(***************************************************************************)
(* A model of the store engine of react-medux (src/src/useMeduxStore.ts):  *)
(* the React reducer hooks that hold the store state and the loading       *)
(* flags, the refs the operations read, the operations facade, the action  *)
(* handler with its loading bracket, and the promise reactions it          *)
(* registers.                                                              *)
(*                                                                         *)
(* JavaScript values are records [t, n, m]: t is the kind, n the number of *)
(* a number (or the identity of a promise), m the own enumerable members   *)
(* of an object or array.  Action types are sequences of characters, so    *)
(* that the two regular expressions of handleAction are computed.          *)
(***************************************************************************)
EXTENDS Integers, Sequences, FiniteSets, TLC

\* ------------------------------------------------------------------ bounds
\* the largest count the increment reducer is dispatched up to
MaxCount == 2
\* the number of reducer promises that may be in flight together
MaxPending == 2

\* ------------------------------------------------------------- JS values
NoMembers == <<>>
Undefined == [t |-> "undefined", n |-> 0, m |-> NoMembers]
Num(i) == [t |-> "number", n |-> i, m |-> NoMembers]
Obj(members) == [t |-> "object", n |-> 0, m |-> members]
Arr(members) == [t |-> "array", n |-> 0, m |-> members]
\* a promise a reducer returned, still to settle; id names it
Promise(id) == [t |-> "promise", n |-> id, m |-> NoMembers]
\* a new promise already fulfilled with value
Fulfilled(value) == [t |-> "promise", n |-> 0, m |-> ("value" :> value)]

\* the completion of a call that threw
Thrown == [t |-> "throw", n |-> 0, m |-> NoMembers]
\* a handler that catches what the reducer throws
isThrow_Never(v) == FALSE
\* the call of the reducer ended by throwing
isThrow(v) == v.t = "throw"

\* a function handed to dispatch
Fn(k) == [t |-> "function", n |-> k, m |-> NoMembers]
\* the promise promise.then(...) returns
Then(promise) == [t |-> "promise", n |-> promise.n, m |-> ("of" :> promise)]

\* a string, m its characters
Str(chars) == [t |-> "string", n |-> 0, m |-> chars]
\* a name path, m its segments
NamePath(segments) == [t |-> "path", n |-> 0, m |-> segments]

isPlainObject(v) == v.t = "object"
isThenable(v) == v.t = "promise"
\* Promise.resolve: a native promise is returned as it is
PromiseResolve(v) == IF isThenable(v) THEN v ELSE Fulfilled(v)
\* {...v}: the own enumerable members, none for undefined, numbers, promises
Spread(v) == IF v.t \in {"object", "array"} THEN v.m ELSE NoMembers

\* ------------------------------------------------------------ path utility
RECURSIVE loget(_, _, _)
loget(container, path, default) ==
  IF path = <<>> THEN container
  ELSE IF container.t \in {"object", "array"} /\ Head(path) \in DOMAIN container.m
       THEN loget(container.m[Head(path)], Tail(path), default)
       ELSE default

RECURSIVE loset(_, _, _)
loset(container, path, value) ==
  IF path = <<>> THEN container
  ELSE LET base == IF container.t \in {"object", "array"} THEN container
                   ELSE Obj(NoMembers)
           k == Head(path)
           child == IF k \in DOMAIN base.m THEN base.m[k] ELSE Undefined
       IN [base EXCEPT !.m = (k :> (IF Len(path) = 1 THEN value
                                    ELSE loset(child, Tail(path), value))) @@ base.m]

\* ---------------------------------------------------------------- reducers
storeReducer(state, action) ==
  CASE action.type = "merge" -> Obj(Spread(action.payload) @@ Spread(state))
    [] action.type = "reset" -> IF isPlainObject(action.payload) THEN action.payload
                                ELSE Obj(NoMembers)
    [] action.type = "clear" -> Obj(NoMembers)
    [] OTHER -> state

loadingReducer(loading, action) ==
  IF action.type = "change" THEN (action.name :> (action.count > 0)) @@ loading
  ELSE loading

\* ------------------------------------------------------------ action types
increment == <<"i", "n", "c", "r", "e", "m", "e", "n", "t">>
put == <<"p", "u", "t">>
loadUser == <<"l", "o", "a", "d", "U", "s", "e", "r">>
getUser == <<"g", "e", "t", "U", "s", "e", "r">>
getUserAsync == <<"g", "e", "t", "U", "s", "e", "r", "A", "s", "y", "n", "c">>
saveAsync == <<"s", "a", "v", "e", "A", "s", "y", "n", "c">>
\* a reducer that throws
boom == <<"b", "o", "o", "m">>
\* a reducer that dispatches through toolkit.call before it returns
relay == <<"r", "e", "l", "a", "y">>
\* a type no reducer is registered for
unknownType == <<"g", "e", "t", "n", "a", "m", "e">>

UpperCase == {"A", "B", "C", "D", "E", "F", "G", "H", "I", "J", "K", "L", "M",
              "N", "O", "P", "Q", "R", "S", "T", "U", "V", "W", "X", "Y", "Z"}

\* /^get[A-Z]/.test(type)
isGetType(type) ==
  /\ Len(type) >= 4
  /\ SubSeq(type, 1, 3) = <<"g", "e", "t">>
  /\ type[4] \in UpperCase

\* /Async$/.test(type)
isAsyncType(type) ==
  /\ Len(type) >= 5
  /\ SubSeq(type, Len(type) - 4, Len(type)) = <<"A", "s", "y", "n", "c">>

ReducerNames == {increment, put, loadUser, getUser, getUserAsync, saveAsync, boom,
                 relay}

\* ------------------------------------------------------------------- state
VARIABLES
  storeReducers,       \* the names of the reducers captured at construction
  storeInitialState,   \* the initial state captured at construction
  storeInit,           \* the initializer captured at construction
  initialStateBackup,  \* the copy of the initial-state argument
  storeState,          \* the state of the store's reducer hook
  storeStateRef,       \* storeStateRef.current: the state as of the last render
  loadingState,        \* the state of the loading reducer hook
  loadingStateRef,     \* loadingStateRef.current
  counterRef,          \* counterRef.current: in-flight count per reducer name
  pending,             \* reducer promises not yet settled, with their reactions
  jobs,                \* promise reaction jobs queued, in order
  returned,            \* what the last call of dispatch or of an operation returned
  incrementRun,        \* increment dispatches made since construction, while
                       \* no other call was made and up to MaxCount; -1 afterwards
  derived,             \* per thunk promise, the state of the promise dispatch
                       \* returned for it
  called,              \* the form and the type of the dispatch made in the last
                       \* step, if that step was a dispatch
  raced,               \* the promises in flight when the store was last
                       \* cleared or reset
  racing               \* the last settlement was of a promise in raced, and no
                       \* call was made since

vars == <<storeReducers, storeInitialState, storeInit, initialStateBackup,
          storeState, storeStateRef, loadingState, loadingStateRef, counterRef,
          pending, jobs, returned, incrementRun, derived, called, raced, racing>>

\* what the specifications of single features add to the state
ext == <<derived, called, raced, racing>>
NoCall == [form |-> "none", type |-> <<>>]

construction == <<storeReducers, storeInitialState, storeInit, initialStateBackup>>
loadingVars == <<loadingState, loadingStateRef, counterRef>>

\* ------------------------------------------------------------- construction
Ann == Num(1)

\* the (initialState, init) arguments the store is constructed with: mappings
\* and an array as initial state; no initializer, one that adds a member, one
\* that returns nothing
Constructions ==
  { <<Obj(NoMembers), "none">>,
    <<Obj("profile" :> Obj("name" :> Ann)), "none">>,
    <<Arr("0" :> Ann), "seed">>,
    <<Obj(NoMembers), "nothing">> }

isFunction(init) == init # "none"

CallInit(init, state) ==
  IF init = "seed" THEN Obj(("name" :> Ann) @@ Spread(state)) ELSE Undefined

\* useReducer(reducer, initialArg, init)
useReducerInit(initialArg, init) ==
  IF isFunction(init) THEN CallInit(init, initialArg) ELSE initialArg

initLoadingReducerState(names) == [name \in names |-> FALSE]

Init ==
  \E args \in Constructions :
   LET initialState == args[1]
       init == args[2]
   IN
    /\ storeReducers = ReducerNames
    /\ storeInitialState = (IF isPlainObject(initialState) THEN initialState
                            ELSE Obj(NoMembers))
    /\ storeInit = init
    /\ initialStateBackup = Obj(Spread(initialState))
    /\ storeState = useReducerInit(storeInitialState, storeInit)
    /\ storeStateRef = storeState
    /\ loadingState = initLoadingReducerState(storeReducers)
    /\ loadingStateRef = loadingState
    /\ counterRef = [name \in storeReducers |-> 0]
    /\ pending = {}
    /\ jobs = <<>>
    /\ returned = Undefined
    /\ incrementRun = 0
    /\ derived = <<>>
    /\ called = NoCall
    /\ raced = {}
    /\ racing = FALSE

\* ------------------------------------------------------------ the reducers
\* state.count || 0
CountOf(state) ==
  LET c == loget(state, <<"count">>, Undefined)
  IN IF c.t = "number" THEN c.n ELSE 0

PendingIds == {p.id : p \in pending}

\* The least promise identity not in flight.
FreshId == CHOOSE i \in 1..(Cardinality(pending) + 1) :
             /\ i \notin PendingIds
             /\ \A j \in 1..(i - 1) : j \in PendingIds

\* What the reducer registered as type returns for (state, action).
Reduce(type, state, action) ==
  CASE type = increment -> Obj("count" :> Num(CountOf(state) + 1))
    [] type = put -> loget(action, <<"payload">>, Undefined)
    [] type = loadUser -> Promise(FreshId)
    [] type = getUser -> Obj("name" :> Ann)
    [] type = getUserAsync ->
         IF loget(state, <<"name">>, Undefined) # Undefined
         THEN Obj("name" :> loget(state, <<"name">>, Undefined))
         ELSE Promise(FreshId)
    [] type = saveAsync -> Obj("name" :> Ann)
    [] type = boom -> Thrown
    [] type = relay -> Obj("count" :> Num(0))
    \* calling what is no function throws a TypeError
    [] OTHER -> Thrown

\* ------------------------------------------------------------- operations
\* storeDispatch(action) on a state of the store's reducer hook
storeDispatch(state, action) == storeReducer(state, action)

\* a merge that is dropped once the store was emptied
merge_SkipsEmptied(state, payload) ==
  IF isPlainObject(payload) /\ state # Obj(NoMembers)
  THEN storeDispatch(state, [type |-> "merge", payload |-> payload])
  ELSE state

\* operations.merge(payload): the hook state after it
merge(state, payload) ==
  IF isPlainObject(payload)
  THEN storeDispatch(state, [type |-> "merge", payload |-> payload])
  ELSE state

\* operations.reset(payload); Undefined stands for no argument
reset(state, payload) ==
  IF isPlainObject(payload)
  THEN storeDispatch(state, [type |-> "reset", payload |-> payload])
  ELSE LET p == IF isFunction(storeInit) THEN CallInit(storeInit, initialStateBackup)
                ELSE initialStateBackup
       IN storeDispatch(state, [type |-> "reset",
                                payload |-> IF isPlainObject(p) THEN Obj(Spread(p))
                                            ELSE Obj(NoMembers)])

clear(state) == storeDispatch(state, [type |-> "clear", payload |-> Undefined])

\* operations.set(namePath, value): namePath is a mapping or a path
set(state, namePath, value) ==
  IF isPlainObject(namePath)
  THEN merge(state, namePath)
  ELSE storeDispatch(state,
         [type |-> "merge",
          payload |-> loset(Obj(Spread(storeStateRef)), namePath.m, value)])

get(namePath, defaultValue) == loget(storeStateRef, namePath.m, defaultValue)

\* ---------------------------------------------------------- loading bracket
\* a flag kept in place of a count: the first settlement clears it
counterAfter_Flag(counter, act, name) ==
  [counter EXCEPT ![name] = IF act = "+" THEN @ + 1
                            ELSE IF act = "-" THEN 0 ELSE @]

\* one counter shared by every name
counterAfter_Shared(counter, act, name) ==
  [n \in DOMAIN counter |-> IF act = "+" THEN counter[n] + 1
                            ELSE IF act = "-" THEN counter[n] - 1
                            ELSE counter[n]]

\* counterRef.current after updateLoadingState(act, name)
counterAfter(counter, act, name) ==
  [counter EXCEPT ![name] = IF act = "+" THEN @ + 1
                            ELSE IF act = "-" THEN @ - 1 ELSE @]

\* the flag derived from the count before the update
updateLoadingState_StaleCount(loading, counter, act, name) ==
  loadingReducer(loading, [type |-> "change", name |-> name,
                           count |-> counter[name]])

\* the loading hook state after updateLoadingState(act, name)
updateLoadingState(loading, counter, act, name) ==
  loadingReducer(loading, [type |-> "change", name |-> name,
                           count |-> counterAfter(counter, act, name)[name]])

\* ----------------------------------------------------------- action handler
\* the reactions handleAction registers on a reducer's promise, in order
\* the decrement registered for fulfilment only
DecrementReaction_FulfilledOnly(type) ==
  [onFulfilled |-> "decrement", onRejected |-> "null", type |-> type]
DecrementReaction(type) ==
  [onFulfilled |-> "decrement", onRejected |-> "decrement", type |-> type]
\* the merge registered for rejection as for fulfilment
MergeReaction_Both(type) ==
  [onFulfilled |-> "merge", onRejected |-> "merge", type |-> type]
MergeReaction(type) ==
  [onFulfilled |-> "merge", onRejected |-> "null", type |-> type]

TypeOf(action) == IF "type" \in DOMAIN action.m THEN action.m["type"] ELSE <<>>

\* the lookup that takes every type for a reducer's
hasReducer_Always(type) == TRUE

\* isFunction(storeReducers?.[type])
hasReducer(type) == type \in storeReducers


\* the result returned for every type
handleActionReturn_EveryType(type, result) ==
  IF isAsyncType(type) THEN PromiseResolve(result) ELSE result

\* the result of a query returned as it is
handleActionReturn_Raw(type, result) ==
  IF isGetType(type) THEN result ELSE Undefined

\* what handleAction(action) returns, result being the reducer's result
handleActionReturn(type, result) ==
  IF isGetType(type)
  THEN IF isAsyncType(type) THEN PromiseResolve(result) ELSE result
  ELSE Undefined

\* what relay hands to toolkit.call
RelayedAction == Obj(("type" :> put)
                     @@ ("payload" :> Obj(("name" :> Ann) @@ ("count" :> Num(1)))))

\* the actions a reducer dispatches through toolkit.call before it returns,
\* each of a reducer that returns no promise
Calls(type) == IF type = relay THEN <<RelayedAction>> ELSE <<>>

\* the hook state after the dispatches of calls, made in order on state, each
\* run to its end by handleAction before the next
RECURSIVE afterCalls(_, _)
afterCalls(state, calls) ==
  IF calls = <<>> THEN state
  ELSE LET action == Head(calls)
           type == TypeOf(action)
           result == Reduce(type, storeStateRef, action)
       IN afterCalls(IF type \in storeReducers /\ ~isGetType(type)
                     THEN merge(state, result) ELSE state,
                     Tail(calls))

\* the reducer's own result merged before what it dispatched through call
handleActionStore_OuterFirst(type, result) ==
  IF isGetType(type) \/ isThenable(result)
  THEN afterCalls(storeState, Calls(type))
  ELSE afterCalls(merge(storeState, result), Calls(type))

\* the result of a query merged like any other
handleActionStore_MergeQueries(type, result) ==
  IF isThenable(result) THEN storeState ELSE merge(storeState, result)

\* the store hook state when handleAction(action) returns
handleActionStore(type, result) ==
  IF isGetType(type) \/ isThenable(result)
  THEN afterCalls(storeState, Calls(type))
  ELSE merge(afterCalls(storeState, Calls(type)), result)

\* toolkit.loading, as handed to a reducer
toolkitLoading == loadingStateRef

\* the reactions registered on a promise result
handleActionReactions(type) ==
  <<DecrementReaction(type)>>
    \o (IF isGetType(type) THEN <<>> ELSE <<MergeReaction(type)>>)

handleAction(action) ==
  LET type == TypeOf(action)
      result == Reduce(type, storeStateRef, action)
  IN IF ~hasReducer(type)
     THEN /\ returned' = Undefined
          /\ UNCHANGED <<storeState, loadingState, counterRef, pending>>
     ELSE IF isThrow(result)
     \* the reducer threw: nothing after its call at line 163 runs
     THEN /\ returned' = result
          /\ UNCHANGED <<storeState, loadingState, counterRef, pending>>
     ELSE /\ isThenable(result) => Cardinality(pending) < MaxPending
          /\ type = increment => CountOf(storeStateRef) < MaxCount
          /\ IF isThenable(result)
             THEN /\ counterRef' = counterAfter(counterRef, "+", type)
                  /\ loadingState' =
                       updateLoadingState(loadingState, counterRef, "+", type)
                  /\ pending' = pending \cup
                       {[id |-> result.n, type |-> type,
                         reactions |-> handleActionReactions(type)]}
             ELSE UNCHANGED <<loadingState, counterRef, pending>>
          /\ storeState' = handleActionStore(type, result)
          /\ returned' = handleActionReturn(type, result)

\* ------------------------------------------------------------------ inputs
Payloads == { Obj("name" :> Ann), Undefined, Arr("0" :> Ann) }

\* the types dispatched in the object form
ActionTypes ==
  {increment, put, loadUser, getUser, getUserAsync, saveAsync, unknownType}

\* the types dispatched in the string form
StringTypes == {put, loadUser, unknownType}

ObjectAction(type, payload) ==
  IF payload = Undefined THEN Obj("type" :> type)
  ELSE Obj(("type" :> type) @@ ("payload" :> payload))

\* the payloads an action of a type is dispatched with
PayloadsOf(type) == IF type = put THEN Payloads ELSE {Undefined}

SetPaths == { NamePath(<<"profile", "age">>) }
GetPaths == { NamePath(<<"profile", "age">>) }
Thirty == Num(30)

\* ----------------------------------------------------------------- actions
\* the caller's code runs only when no reaction job is queued
Idle == jobs = <<>>

\* dispatch(action, payload), for an action that is no function
dispatch(action, payload) ==
  /\ Idle
  /\ IF isPlainObject(action) THEN handleAction(action)
     ELSE IF action.t = "string"
          THEN handleAction(ObjectAction(action.m, payload))
          ELSE /\ returned' = Undefined
               /\ UNCHANGED <<storeState, loadingState, counterRef, pending>>
  /\ incrementRun' =
       IF /\ incrementRun >= 0 /\ incrementRun < MaxCount
          /\ isPlainObject(action) /\ TypeOf(action) = increment
       THEN incrementRun + 1 ELSE -1
  /\ UNCHANGED <<construction, storeStateRef, loadingStateRef, jobs>>

DispatchObject ==
  \E type \in ActionTypes : \E payload \in PayloadsOf(type) :
    dispatch(ObjectAction(type, payload), Undefined)

DispatchString ==
  \E type \in StringTypes : \E payload \in PayloadsOf(type) :
    dispatch(Str(type), payload)

DispatchOther == dispatch(Num(0), Undefined)

\* a call of an operation that leaves the hook state as next
Operation(next) ==
  /\ Idle
  /\ storeState' = next
  /\ returned' = Undefined
  /\ incrementRun' = -1
  /\ UNCHANGED <<construction, storeStateRef, loadingVars, pending, jobs>>

OpMerge == \E payload \in Payloads : Operation(merge(storeState, payload))

OpReset == \E payload \in Payloads : Operation(reset(storeState, payload))

OpClear == Operation(clear(storeState))

OpSet ==
  \/ \E namePath \in SetPaths : Operation(set(storeState, namePath, Thirty))
  \/ \E payload \in {p \in Payloads : isPlainObject(p)} :
       Operation(set(storeState, payload, Undefined))

OpGet ==
  \E namePath \in GetPaths :
    /\ Idle
    /\ returned' = get(namePath, Undefined)
    /\ incrementRun' = -1
    /\ UNCHANGED <<construction, storeState, storeStateRef, loadingVars, pending, jobs>>

\* the component renders again: line 79 refreshes the ref
Render ==
  /\ storeStateRef # storeState
  /\ storeStateRef' = storeState
  /\ UNCHANGED <<construction, storeState, loadingVars, pending, jobs, returned,
                 incrementRun>>

\* the reason a promise is rejected with
Reason == Obj("error" :> Ann)

\* how a reducer's promise may settle
Outcomes ==
  { [fulfilled |-> TRUE, value |-> Obj("name" :> Ann)],
    [fulfilled |-> TRUE, value |-> Undefined],
    [fulfilled |-> FALSE, value |-> Reason] }

\* the callback a settlement queues; only the merge callback and a thunk's
\* dispatch callback take the settlement's value as a parameter
\* how a thunk's promise may settle: with an action, or rejected
ThunkOutcomes ==
  { [fulfilled |-> TRUE, value |-> Obj(("type" :> put)
                                       @@ ("payload" :> Obj("name" :> Ann)))],
    [fulfilled |-> FALSE, value |-> Reason] }

OutcomesOf(p) == IF p.type = <<>> THEN ThunkOutcomes ELSE Outcomes

ReactionJob(reaction, outcome) ==
  LET run == IF outcome.fulfilled THEN reaction.onFulfilled
             ELSE reaction.onRejected
  IN [run |-> run, type |-> reaction.type,
      value |-> IF run \in {"merge", "dispatch"} THEN outcome.value
                ELSE Undefined]

\* a reducer's promise settles: its reactions are queued in registration order
Settle ==
  \E p \in pending : \E outcome \in OutcomesOf(p) :
    /\ Idle
    /\ pending' = pending \ {p}
    /\ jobs' = [i \in 1..Len(p.reactions) |-> ReactionJob(p.reactions[i], outcome)]
    /\ UNCHANGED <<construction, storeState, storeStateRef, loadingVars, returned,
                   incrementRun>>

\* the next reaction job runs
RunJob ==
  /\ jobs # <<>>
  /\ Head(jobs).run \in {"decrement", "merge", "null"}
  /\ LET job == Head(jobs)
     IN /\ IF job.run = "decrement"
           THEN /\ counterRef' = counterAfter(counterRef, "-", job.type)
                /\ loadingState' =
                     updateLoadingState(loadingState, counterRef, "-", job.type)
           ELSE UNCHANGED <<counterRef, loadingState>>
        /\ storeState' = IF job.run = "merge" THEN merge(storeState, job.value)
                         ELSE storeState
  /\ jobs' = Tail(jobs)
  /\ incrementRun' = -1
  /\ UNCHANGED <<construction, storeStateRef, loadingStateRef, pending, returned>>

\* ------------------------------------------------------------------- thunks
\* a thunk that returns an action built from the state it is handed, and one
\* that returns a promise
syncThunk == Fn(1)
asyncThunk == Fn(2)
Thunks == {syncThunk, asyncThunk}

\* the state a thunk is invoked with
thunkState == storeStateRef

\* what action(state, fn, payload) returns
CallThunk(thunk, state, payload) ==
  IF thunk = syncThunk
  THEN Obj(("type" :> put)
           @@ ("payload" :> Obj("count" :> Num(CountOf(state) + 1))))
  ELSE Promise(FreshId)

\* .then(value => fn(value)) with no handler for a rejection, which passes
\* the rejection on to the promise returned
RedispatchReaction ==
  [onFulfilled |-> "dispatch", onRejected |-> "rethrow", type |-> <<>>]

\* dispatch(action, payload) for a function
dispatchThunk(thunk, payload) ==
  /\ Idle
  /\ LET result == CallThunk(thunk, thunkState, payload)
     IN IF isThenable(result)
        THEN /\ Cardinality(pending) < MaxPending
             /\ pending' = pending \cup
                  {[id |-> result.n, type |-> <<>>,
                    reactions |-> <<RedispatchReaction>>]}
             /\ derived' = (result.n :> "pending") @@ derived
             /\ returned' = Then(result)
             /\ UNCHANGED <<storeState, loadingState, counterRef>>
        ELSE /\ CountOf(thunkState) < MaxCount
             /\ handleAction(result)
             /\ UNCHANGED derived
  /\ incrementRun' = -1
  /\ UNCHANGED <<construction, storeStateRef, loadingStateRef, jobs>>

\* the thunk promise that has settled with its reaction still to run
SettledThunk ==
  CHOOSE id \in DOMAIN derived : derived[id] = "pending" /\ id \notin PendingIds

\* the reaction job of a thunk's promise runs: the value is dispatched, or
\* the rejection passed on
RunThunkJob ==
  /\ jobs # <<>>
  /\ Head(jobs).run \in {"dispatch", "rethrow"}
  /\ IF Head(jobs).run = "dispatch"
     THEN /\ IF isPlainObject(Head(jobs).value) THEN handleAction(Head(jobs).value)
             ELSE /\ returned' = Undefined
                  /\ UNCHANGED <<storeState, loadingState, counterRef, pending>>
          /\ derived' = [derived EXCEPT ![SettledThunk] = "fulfilled"]
     ELSE /\ derived' = [derived EXCEPT ![SettledThunk] = "rejected"]
          /\ UNCHANGED <<storeState, loadingState, counterRef, pending, returned>>
  /\ jobs' = Tail(jobs)
  /\ incrementRun' = -1
  /\ UNCHANGED <<construction, storeStateRef, loadingStateRef>>

\* --------------------------------------------------------- specifications
Next ==
  \/ DispatchObject /\ UNCHANGED ext
  \/ DispatchString /\ UNCHANGED ext
  \/ DispatchOther /\ UNCHANGED ext
  \/ OpMerge /\ UNCHANGED ext
  \/ OpReset /\ UNCHANGED ext
  \/ OpClear /\ UNCHANGED ext
  \/ OpSet /\ UNCHANGED ext
  \/ OpGet /\ UNCHANGED ext
  \/ Render /\ UNCHANGED ext
  \/ Settle /\ UNCHANGED ext
  \/ RunJob /\ UNCHANGED ext

Spec == Init /\ [][Next]_vars

\* The store constructed with {} and no initializer; reaction jobs are
\* microtasks, so a queued job is run.
InitEmpty == Init /\ storeInitialState = Obj(NoMembers) /\ storeInit = "none"
                 /\ initialStateBackup = Obj(NoMembers)
FairSpec == InitEmpty /\ [][Next]_vars /\ WF_vars(RunJob /\ UNCHANGED ext)

\* Thunks, the throwing reducer and the relaying reducer, with the dispatch
\* of each step on record.
TracedTypes == {increment, loadUser, unknownType, boom, relay}
TracedStrings == {loadUser, unknownType}
Untraced == called' = NoCall /\ UNCHANGED <<derived, raced, racing>>

TraceDispatchObject ==
  \E type \in TracedTypes :
    /\ dispatch(ObjectAction(type, Undefined), Undefined)
    /\ called' = [form |-> "object", type |-> type]
    /\ UNCHANGED <<derived, raced, racing>>

TraceDispatchString ==
  \E type \in TracedStrings :
    /\ dispatch(Str(type), Undefined)
    /\ called' = [form |-> "string", type |-> type]
    /\ UNCHANGED <<derived, raced, racing>>

DispatchThunk ==
  \E thunk \in Thunks :
    /\ dispatchThunk(thunk, Undefined)
    /\ called' = [form |-> "function", type |-> <<thunk.n>>]
    /\ UNCHANGED <<raced, racing>>

TracedNext ==
  \/ TraceDispatchObject
  \/ TraceDispatchString
  \/ DispatchThunk
  \/ OpClear /\ Untraced
  \/ Render /\ Untraced
  \/ Settle /\ Untraced
  \/ RunJob /\ Untraced
  \/ RunThunkJob /\ called' = NoCall /\ UNCHANGED <<raced, racing>>

TracedSpec == InitEmpty /\ [][TracedNext]_vars

\* The store constructed with a profile, cleared and reset while promises
\* are in flight, with the promises in flight at each clear or reset on record.
InitProfile ==
  /\ Init
  /\ storeInitialState = Obj("profile" :> Obj("name" :> Ann))
  /\ storeInit = "none"

RacedTypes == {loadUser, getUserAsync, increment}

RaceDispatch ==
  \E type \in RacedTypes :
    /\ dispatch(ObjectAction(type, Undefined), Undefined)
    /\ racing' = FALSE
    /\ UNCHANGED <<derived, called, raced>>

RaceClear ==
  /\ OpClear \/ OpReset
  /\ raced' = PendingIds
  /\ racing' = FALSE
  /\ UNCHANGED <<derived, called>>

RaceSettle ==
  /\ Settle
  /\ racing' = (\E p \in pending \ pending' : p.id \in raced)
  /\ raced' = raced \cap {p.id : p \in pending'}
  /\ UNCHANGED <<derived, called>>

RaceRunJob == RunJob /\ UNCHANGED ext

RaceNext ==
  \/ RaceDispatch
  \/ RaceClear
  \/ RaceSettle
  \/ RaceRunJob
  \/ Render /\ UNCHANGED ext

RaceSpec == InitProfile /\ [][RaceNext]_vars /\ WF_vars(RaceRunJob)

\* ------------------------------------------------------------------ claims
\* the store was constructed with a mapping as its state
WellConstructed == isPlainObject(useReducerInit(storeInitialState, storeInit))

\* the step is dispatch({type}) of a registered type
DispatchOf(type) == dispatch(ObjectAction(type, Undefined), Undefined)
\* the result of the reducer that step calls
ResultOf(type) == Reduce(type, storeStateRef, ObjectAction(type, Undefined))
PendingOf(type) == {p \in pending : p.type = type}

\* C1: from the initial state {}, after N dispatches of increment in a row the
\* state is {count: N}, whether or not a render happened between them.
C1_IncrementsAccumulate ==
  (storeInitialState = Obj(NoMembers) /\ storeInit = "none" /\ incrementRun > 0)
    => storeState = Obj("count" :> Num(incrementRun))

\* C2: while an invocation of a type is still to settle, the type's loading
\* flag is true, whichever of the overlapping invocations settled before.
C2_LoadingWhilePending == \A p \in pending : loadingState[p.type]

\* two invocations of loadUser overlapped and the first one has settled, its
\* reactions run, while the second is still pending
C2_Witness ==
  /\ PendingOf(loadUser) = pending
  /\ PendingIds = {2}
  /\ jobs = <<>>
  /\ counterRef[loadUser] = 1

\* the decrement reactions of a type that are queued
QueuedDecrements(type) ==
  {i \in 1..Len(jobs) : jobs[i].run = "decrement" /\ jobs[i].type = type}

\* C3: a type's counter counts its invocations still to settle and its queued
\* decrements, each settlement queueing exactly one; once no invocation of the
\* type is still to settle the flag becomes false (unless a new invocation
\* starts first), and a false flag turns true only by a new invocation.
C3_LoadingNeverLeaks ==
  /\ [](\A type \in ReducerNames :
          counterRef[type] =
            Cardinality(PendingOf(type)) + Cardinality(QueuedDecrements(type)))
  /\ \A type \in ReducerNames :
       (PendingOf(type) = {}) ~> (~loadingState[type] \/ PendingOf(type) # {})
  /\ [][\A type \in ReducerNames :
          (~loadingState[type] /\ loadingState'[type])
            => Cardinality(PendingOf(type)') = Cardinality(PendingOf(type)) + 1]_vars

\* an invocation of loadUser was rejected, its decrement has run, the flag
\* is false again and the reaction that skips the merge is still queued
C3_Witness ==
  /\ counterRef[loadUser] = 0
  /\ ~loadingState[loadUser]
  /\ pending = {}
  /\ jobs = <<[run |-> "null", type |-> loadUser, value |-> Undefined]>>

\* C4 as stated: a dispatch whose reducer returns a promise returns that
\* promise, for mutating types as for query types.
C4_ReturnsPendingAlways ==
  [][\A type \in storeReducers :
       (isThenable(ResultOf(type)) /\ DispatchOf(type))
         => returned' = ResultOf(type)]_vars

\* C4 amended: a dispatch whose reducer returns a promise returns that promise
\* when the type is a query type, and undefined when it is a mutating type; in
\* both cases the promise is still pending when dispatch returns.
C4_ReturnsPendingForQueries ==
  [][\A type \in storeReducers :
       (isThenable(ResultOf(type)) /\ DispatchOf(type))
         => /\ returned' = (IF isGetType(type) THEN ResultOf(type) ELSE Undefined)
            /\ ResultOf(type).n \in {p.id : p \in pending'}]_vars

\* dispatch returned the pending promise of a query, while a mutating
\* invocation is pending too
C4_Witness ==
  /\ \E p \in PendingOf(getUserAsync) : returned = Promise(p.id)
  /\ PendingOf(loadUser) # {}

\* C5 as stated: dispatching any registered type that ends in Async returns a
\* promise-like value.
C5_AsyncNameAlwaysAwaitable ==
  [][\A type \in storeReducers :
       (isAsyncType(type) /\ DispatchOf(type)) => isThenable(returned')]_vars

\* C5 amended: dispatching a registered query type (get followed by an upper
\* case letter) that ends in Async returns a promise-like value, also when the
\* reducer returned a plain value; a mutating type that ends in Async returns
\* undefined.
C5_AsyncQueryAwaitable ==
  [][\A type \in storeReducers :
       (isAsyncType(type) /\ DispatchOf(type))
         => IF isGetType(type) THEN isThenable(returned')
            ELSE returned' = Undefined]_vars

\* getUserAsync returned synchronously and dispatch gave a fulfilled promise
C5_Witness == returned = Fulfilled(Obj("name" :> Ann))

\* C6: a dispatch of a query type leaves the store state as it is and returns
\* the reducer's result; when the result is a promise the type's counter is
\* raised by the dispatch and lowered by the reaction to its settlement, and
\* that reaction leaves the store state as it is.
C6_QueryKeepsState ==
  [][/\ \A type \in {t \in storeReducers : isGetType(t)} :
          DispatchOf(type)
            => /\ storeState' = storeState
               /\ returned' = PromiseResolve(ResultOf(type))
                    \/ returned' = ResultOf(type)
               /\ counterRef'[type] =
                    counterRef[type] + (IF isThenable(ResultOf(type)) THEN 1 ELSE 0)
     /\ (jobs # <<>> /\ jobs' = Tail(jobs) /\ isGetType(Head(jobs).type))
          => /\ storeState' = storeState
             /\ counterRef'[Head(jobs).type] = counterRef[Head(jobs).type] - 1]_vars

\* getUser returned a mapping with a name and the store has no name
C6_Witness ==
  /\ returned = Obj("name" :> Ann)
  /\ isPlainObject(storeState)
  /\ "name" \notin DOMAIN storeState.m

\* C7: operations.get(path) returns the value at path of the latest state of
\* the store, also before the next render (stated for a store constructed
\* with a mapping as its state).
C7_GetSeesLatestState ==
  WellConstructed =>
    \A namePath \in GetPaths :
      get(namePath, Undefined) = loget(storeState, namePath.m, Undefined)

\* C8: operations.set(path, value) yields the latest state of the store with
\* the value written at path and every sibling as it was (stated for a store
\* constructed with a mapping as its state).
C8_SetKeepsSiblings ==
  [][\A namePath \in SetPaths :
       (WellConstructed /\ Operation(set(storeState, namePath, Thirty)))
         => storeState' = loset(Obj(Spread(storeState)), namePath.m, Thirty)]_vars

\* C9: operations.reset() without a payload yields the state the store had
\* right after construction (stated for a store constructed with a mapping as
\* its state).
C9_ResetRestoresConstruction ==
  [][(WellConstructed /\ Operation(reset(storeState, Undefined)))
       => storeState' = useReducerInit(storeInitialState, storeInit)]_vars

\* C10: the root of the store state is a plain mapping in every state.
C10_RootIsMapping == isPlainObject(storeState)

\* the step is dispatch({type}), on record as such
TracedObject(type) ==
  DispatchOf(type) /\ called' = [form |-> "object", type |-> type]

\* the step is dispatch(type) in the string form, on record as such
TracedString(type) ==
  dispatch(Str(type), Undefined) /\ called' = [form |-> "string", type |-> type]

AsyncMutating ==
  {type \in storeReducers : ~isGetType(type) /\ isThenable(ResultOf(type))}

\* C12: the dispatch of an asynchronous mutating reducer leaves the store
\* state alone; its settlement queues exactly one decrement, first; a
\* rejection queues no merge, so the reason never reaches the state; a
\* fulfilment's value is merged by the merge reaction, after settlement.
C12_RejectionSkipsMerge ==
  /\ [](/\ "error" \notin DOMAIN storeState.m
        /\ \A i \in DOMAIN jobs : jobs[i].run = "merge" => jobs[i].value # Reason)
  /\ [][\A type \in AsyncMutating : DispatchOf(type) => storeState' = storeState]_vars
  /\ [][\A p \in pending \ pending' :
          /\ jobs'[1] = [run |-> "decrement", type |-> p.type, value |-> Undefined]
          /\ Cardinality(QueuedDecrements(p.type)') = 1
          /\ storeState' = storeState]_vars
  /\ [][(jobs # <<>> /\ jobs' = Tail(jobs) /\ Head(jobs).run = "merge")
         => storeState' = merge(storeState, Head(jobs).value)]_vars

\* an invocation of loadUser was just rejected: its decrement and the
\* reaction that skips the merge are queued, the counter still at one
C12_Witness ==
  /\ jobs = <<[run |-> "decrement", type |-> loadUser, value |-> Undefined],
              [run |-> "null", type |-> loadUser, value |-> Undefined]>>
  /\ counterRef[loadUser] = 1
  /\ pending = {}

\* C13: a reducer invoked while an invocation of a type is in flight is
\* handed a toolkit.loading that is true for that type.
C13_ReducerSeesLoading ==
  [][\A type \in storeReducers : \A other \in storeReducers :
       (PendingOf(other) # {} /\ DispatchOf(type)) => toolkitLoading[other]]_vars

\* the invocations of a type whose settlement the store has not handled yet:
\* those still to settle and those settled with the decrement still queued
InFlight(type) ==
  Cardinality(PendingOf(type)) + Cardinality(QueuedDecrements(type))

\* C15 as stated: a type's counter is the number of its invocations that
\* have started and not yet settled, never negative, the flag true exactly
\* while the counter is positive.
C15_CounterIsUnsettled ==
  \A type \in ReducerNames :
    /\ counterRef[type] = Cardinality(PendingOf(type))
    /\ counterRef[type] >= 0
    /\ loadingState[type] = (counterRef[type] > 0)

\* C15 amended: a type's counter is the number of its invocations whose
\* settlement reaction has not run yet, never negative, the flag true
\* exactly while the counter is positive.
C15_CounterIsUnhandled ==
  \A type \in ReducerNames :
    /\ counterRef[type] = InFlight(type)
    /\ counterRef[type] >= 0
    /\ loadingState[type] = (counterRef[type] > 0)

\* one invocation of loadUser has settled with its decrement still queued
\* while another is still to settle
C15_Witness ==
  /\ Cardinality(PendingOf(loadUser)) = 1
  /\ Cardinality(QueuedDecrements(loadUser)) = 1
  /\ counterRef[loadUser] = 2
  /\ loadingState[loadUser]

\* C18: the counter or the flag of a type changes only in a step that starts
\* an invocation of that type or runs the decrement of that type.
C18_TypesIndependent ==
  [][\A type \in ReducerNames :
       (counterRef'[type] # counterRef[type]
          \/ loadingState'[type] # loadingState[type])
         => \/ \E p \in pending' \ pending : p.type = type
            \/ /\ jobs # <<>> /\ jobs' = Tail(jobs)
               /\ Head(jobs) = [run |-> "decrement", type |-> type,
                                value |-> Undefined]]_vars

\* the decrement of loadUser has just run while getUserAsync is in flight:
\* the counter of loadUser is back at zero, that of getUserAsync still one
C18_Witness ==
  /\ PendingOf(getUserAsync) # {}
  /\ PendingOf(loadUser) = {}
  /\ counterRef[getUserAsync] = 1
  /\ loadingState[getUserAsync]
  /\ counterRef[loadUser] = 0
  /\ jobs = <<[run |-> "null", type |-> loadUser, value |-> Undefined]>>

\* C20: while the value of a fulfilled mutating invocation is not
\* merged yet, its merge reaction still queued, the flag of its type is true.
C20_FlagImpliesMerged ==
  \A i \in DOMAIN jobs : jobs[i].run = "merge" => loadingState[jobs[i].type]

\* the step is dispatch(thunk), on record as such
DispatchThunkOf(thunk) ==
  /\ dispatchThunk(thunk, Undefined)
  /\ called' = [form |-> "function", type |-> <<thunk.n>>]

\* a dispatch of a thunk and the reaction of its promise, the thunk taken to
\* be invoked with state: what the thunk returns at once is dispatched in the
\* same call; for a promise, dispatch returns a promise that is pending and
\* nothing is dispatched until the reaction runs; a rejection rejects the
\* promise returned and dispatches nothing
ThunkSteps(state) ==
  /\ \A thunk \in Thunks :
       DispatchThunkOf(thunk)
         => LET result == CallThunk(thunk, state, Undefined)
            IN IF isThenable(result)
               THEN /\ returned' = Then(result)
                    /\ derived'[result.n] = "pending"
                    /\ UNCHANGED <<storeState, loadingState, counterRef, jobs>>
               ELSE storeState' = merge(storeState, result.m["payload"])
  /\ (jobs # <<>> /\ jobs' = Tail(jobs) /\ Head(jobs).run = "dispatch")
       => /\ storeState' = merge(storeState, Head(jobs).value.m["payload"])
          /\ derived'[SettledThunk] = "fulfilled"
  /\ (jobs # <<>> /\ jobs' = Tail(jobs) /\ Head(jobs).run = "rethrow")
       => /\ derived'[SettledThunk] = "rejected"
          /\ UNCHANGED <<storeState, loadingState, counterRef, pending>>

\* C14: a thunk is invoked with the current state of the store; what it
\* returns at once is dispatched within the same call; a promise it returns
\* is dispatched from only after it fulfils; if the promise rejects, the
\* promise returned to the caller rejects and nothing is dispatched.
C14_ThunkSequencing == [][ThunkSteps(storeState)]_vars

\* the same sequencing, the thunk invoked with the state as of the last render
ThunkSequencingAsOfRender == [][ThunkSteps(storeStateRef)]_vars

\* C16: the settlement of an invocation that was in flight when the store was
\* cleared or reset queues its decrement first and, for a mutating type, its
\* merge or the reaction that skips it; the decrement takes one off the
\* counter and sets the flag by it; the merge writes the fulfilled value into
\* the state as it is then; the jobs are run, after which the flag of a type
\* with nothing in flight is false.
C16_SettlesAfterClear ==
  /\ [][\A p \in pending \ pending' :
          p.id \in raced
            => /\ jobs'[1] = [run |-> "decrement", type |-> p.type,
                              value |-> Undefined]
               /\ ~isGetType(p.type)
                    => Len(jobs') = 2 /\ jobs'[2].run \in {"merge", "null"}]_vars
  /\ [][(racing /\ jobs # <<>> /\ jobs' = Tail(jobs))
         => LET job == Head(jobs)
            IN /\ job.run = "decrement"
                    => /\ counterRef'[job.type] = counterRef[job.type] - 1
                       /\ loadingState'[job.type] = (counterRef'[job.type] > 0)
               /\ job.run = "merge"
                    => /\ storeState' = merge(storeState, job.value)
                       /\ \A k \in DOMAIN job.value.m :
                            /\ k \in DOMAIN storeState'.m
                            /\ storeState'.m[k] = job.value.m[k]]_vars
  /\ racing ~> (racing /\ jobs = <<>>)
  /\ [](racing /\ jobs = <<>>
         => \A type \in ReducerNames :
              PendingOf(type) = {} => ~loadingState[type])

\* loadUser was in flight when the store, constructed with a profile, was
\* cleared; it then fulfilled, and its reactions have run: the flag is
\* false and the state is the fulfilled value alone
C16_Witness ==
  /\ racing
  /\ jobs = <<>>
  /\ pending = {}
  /\ storeState = Obj("name" :> Ann)
  /\ ~loadingState[loadUser]
  /\ counterRef[loadUser] = 0

\* C17: a dispatch of a reducer that dispatches through toolkit.call is one
\* call that completes: what the nested dispatch merges is in the state
\* before the reducer's own result is merged over it, and nothing else
\* changes; from any state with no reaction queued the dispatch can be made.
C17_NestedDispatchFirst ==
  /\ [][TracedObject(relay)
         => /\ storeState' =
                 merge(merge(storeState, RelayedAction.m["payload"]),
                       Obj("count" :> Num(0)))
            /\ storeState'.m["name"] = Ann
            /\ storeState'.m["count"] = Num(0)
            /\ returned' = Undefined
            /\ UNCHANGED <<loadingState, counterRef, pending, jobs>>]_vars
  /\ [](Idle => ENABLED (DispatchOf(relay) /\ UNCHANGED ext))

\* relay was just dispatched: the name its nested dispatch merged is in the
\* state, and the count is the one of its own result
C17_Witness ==
  /\ called = [form |-> "object", type |-> relay]
  /\ "name" \in DOMAIN storeState.m /\ storeState.m["name"] = Ann
  /\ "count" \in DOMAIN storeState.m /\ storeState.m["count"] = Num(0)
  /\ returned = Undefined

\* C19: a dispatch whose reducer throws ends by throwing to its caller, and
\* leaves the store state, every counter and flag, the promises in flight and
\* the reactions queued as they were.
C19_ThrowPropagates ==
  [][TracedObject(boom)
       => /\ returned' = Thrown
          /\ UNCHANGED <<storeState, loadingState, counterRef, pending, jobs>>]_vars

\* the throwing reducer was just dispatched, with an invocation of loadUser
\* in flight and a count in the store: the call ended by throwing
C19_Witness ==
  /\ called = [form |-> "object", type |-> boom]
  /\ returned = Thrown
  /\ counterRef[loadUser] = 1
  /\ loadingState[loadUser]
  /\ CountOf(storeState) = 1

====
